---------------------------- MODULE Spec2Model ----------------------------
(***************************************************************************)
(* A model of library/configsort.py: the hierarchical sort of an           *)
(* indentation-structured configuration (Lineobj, sort_config, insert_sub, *)
(* get_config) and the Ansible entry point module_main.                    *)
(*                                                                         *)
(* A line of text is a sequence of character codes (ASCII), so that        *)
(* indentation, blank-line detection and the lexicographic order of        *)
(* sorted() are computed on the characters as Python computes them.        *)
(* Lineobj instances live in a heap `nodes`: a sequence of records, the    *)
(* index of a record being the identity of the object.                     *)
(***************************************************************************)
EXTENDS Integers, Sequences, FiniteSets

(***************************************************************************)
(* Bounds of the model.                                                    *)
(***************************************************************************)
MaxLines == 4
MaxFile == 5

(***************************************************************************)
(* Characters.                                                             *)
(***************************************************************************)
Space == 32
Newline == 10
Whitespace == {9, 10, 11, 12, 13, 32}

RECURSIVE Spaces(_)
Spaces(n) == IF n = 0 THEN <<>> ELSE <<Space>> \o Spaces(n - 1)

\* The lines fed to sort_config: "a" and "b" at the indentations 0, 1 and 2,
\* a sub-line whose first character after the indentation is a tab (" \ta"),
\* the empty line and a line of one space.
Bodies == {<<97>>, <<98>>}
Indents == 0..2
IndentedLines == {Spaces(n) \o b : n \in Indents, b \in Bodies}
TabLines == {<<Space, 9, 97>>}
BlankLines == {<<>>, <<Space>>}
Lines == IndentedLines \cup TabLines \cup BlankLines

(***************************************************************************)
(* Python string primitives.                                               *)
(***************************************************************************)
\* len(line) - len(line.lstrip(' ')): the number of leading spaces.
RECURSIVE LeadingSpaces(_)
LeadingSpaces(line) ==
    IF line = <<>> \/ Head(line) # Space THEN 0
    ELSE 1 + LeadingSpaces(Tail(line))

\* line.strip() == ''
IsBlank_EmptyOnly(line) == line = <<>>

IsBlank(line) == \A k \in 1..Len(line) : line[k] \in Whitespace

\* line.startswith(' ')
StartsWithSpace(line) == Len(line) > 0 /\ line[1] = Space

\* a < b on Python strings: code point lexicographic, a proper prefix first.
RECURSIVE TextLess(_, _)
TextLess(a, b) ==
    IF b = <<>> THEN FALSE
    ELSE IF a = <<>> THEN TRUE
    ELSE IF Head(a) # Head(b) THEN Head(a) < Head(b)
    ELSE TextLess(Tail(a), Tail(b))

(***************************************************************************)
(* Lineobj.                                                                *)
(***************************************************************************)
\* Lineobj.__init__ (parent is set to None and never assigned again).
Lineobj(line) == [text |-> line, subs |-> <<>>, indent |-> LeadingSpaces(line)]

add_sub_AlwaysAppends(heap, self, lineobj) ==
    [nodes |-> [heap EXCEPT ![self].subs = Append(@, lineobj)], ret |-> lineobj]

add_sub_ReturnsArgument(heap, self, lineobj) ==
    IF \E k \in 1..Len(heap[self].subs) :
            heap[heap[self].subs[k]].text = heap[lineobj].text
    THEN [nodes |-> heap, ret |-> lineobj]
    ELSE [nodes |-> [heap EXCEPT ![self].subs = Append(@, lineobj)], ret |-> lineobj]

\* Lineobj.add_sub: self and lineobj are heap indices; the result is the
\* heap after the call and the object returned.
add_sub(heap, self, lineobj) ==
    LET subs  == heap[self].subs
        match == {k \in 1..Len(subs) : heap[subs[k]].text = heap[lineobj].text}
    IN  IF match # {}
        THEN [nodes |-> heap,
              ret |-> subs[CHOOSE k \in match : \A j \in match : k <= j]]
        ELSE [nodes |-> [heap EXCEPT ![self].subs = Append(@, lineobj)],
              ret |-> lineobj]

(***************************************************************************)
(* The dict `lines` of sort_config: a sequence of key/value pairs in       *)
(* insertion order, the value being a heap index.                          *)
(***************************************************************************)
DictHas_NeverFound(d, key) == FALSE

DictHas(d, key) == \E k \in 1..Len(d) : d[k].key = key

DictGet(d, key) == d[CHOOSE k \in 1..Len(d) : d[k].key = key].val

DictSet(d, key, val) ==
    IF DictHas(d, key)
    THEN [k \in 1..Len(d) |-> IF d[k].key = key THEN [key |-> key, val |-> val] ELSE d[k]]
    ELSE Append(d, [key |-> key, val |-> val])

DictValues(d) == [k \in 1..Len(d) |-> d[k].val]

(***************************************************************************)
(* insert_sub.  The loop runs i from len(currlevel)-1 down to 0 (here from *)
(* Len(stack) down to 1); `placed` records what the call did with the      *)
(* line: the object pushed and the object it was added to (0, 0 when the   *)
(* loop ends without attaching it).                                        *)
(***************************************************************************)
\* The test of the loop: the entry of the stack is not an ancestor of the line.
NotDeeper_OffByOne(lineIndent, entryIndent) == lineIndent <= entryIndent + 1

NotDeeper_Strict(lineIndent, entryIndent) == lineIndent < entryIndent

NotDeeper(lineIndent, entryIndent) == lineIndent <= entryIndent

RECURSIVE insert_sub_loop(_, _, _, _)
insert_sub_loop(i, stack, heap, lineobj) ==
    IF i < 1
    THEN [currlevel |-> stack, nodes |-> heap, node |-> 0, parent |-> 0]
    ELSE IF NotDeeper(heap[lineobj].indent, heap[stack[i]].indent)
    THEN insert_sub_loop(i - 1, SubSeq(stack, 1, Len(stack) - 1), heap, lineobj)
    ELSE LET r == add_sub(heap, stack[i], lineobj)
         IN  [currlevel |-> Append(stack, r.ret), nodes |-> r.nodes,
              node |-> r.ret, parent |-> stack[i]]

insert_sub_OrphanBecomesRoot(stack, heap, lineobj) ==
    IF stack = <<>>
    THEN [currlevel |-> <<lineobj>>, nodes |-> heap, node |-> lineobj, parent |-> 0]
    ELSE insert_sub_loop(Len(stack), stack, heap, lineobj)

insert_sub(stack, heap, lineobj) ==
    insert_sub_loop(Len(stack), stack, heap, lineobj)

(***************************************************************************)
(* One iteration of the loop of sort_config on `line`.  st is the state of *)
(* the call: the heap, the dict lines, the list currlevel and the log      *)
(* `placed` with one entry per line consumed.  Lineobj(line) is allocated  *)
(* at the end of the heap; when nothing keeps a reference to it (the line  *)
(* was dropped, or add_sub returned an existing object) it is garbage and  *)
(* the heap is left as it was.                                             *)
(***************************************************************************)
NotPlaced == [node |-> 0, parent |-> 0]

LoopBody(st, line) ==
    IF IsBlank(line)
    THEN [st EXCEPT !.placed = Append(@, NotPlaced)]
    ELSE LET known   == DictHas(st.lines, line)
             heap1   == IF known THEN st.nodes ELSE Append(st.nodes, Lineobj(line))
             lineobj == IF known THEN DictGet(st.lines, line) ELSE Len(heap1)
         IN  IF StartsWithSpace(line)
             THEN LET r == insert_sub(st.currlevel, heap1, lineobj)
                  IN  [nodes |-> IF r.node = lineobj THEN r.nodes ELSE st.nodes,
                       lines |-> st.lines,
                       currlevel |-> r.currlevel,
                       placed |-> Append(st.placed, [node |-> r.node, parent |-> r.parent])]
             ELSE [nodes |-> heap1,
                   lines |-> DictSet(st.lines, line, lineobj),
                   currlevel |-> <<lineobj>>,
                   placed |-> Append(st.placed, [node |-> lineobj, parent |-> 0])]

(***************************************************************************)
(* get_config: sorted() is stable, so among equal keys the first stays     *)
(* first.                                                                  *)
(***************************************************************************)
sorted_InsertionOrder(heap, ids) == ids

RECURSIVE sorted(_, _)
sorted(heap, ids) ==
    IF ids = <<>> THEN <<>>
    ELSE LET m == CHOOSE k \in 1..Len(ids) :
                    /\ \A j \in 1..Len(ids) : ~TextLess(heap[ids[j]].text, heap[ids[k]].text)
                    /\ \A j \in 1..(k - 1) : heap[ids[j]].text # heap[ids[k]].text
         IN  <<ids[m]>> \o
             sorted(heap, SubSeq(ids, 1, m - 1) \o SubSeq(ids, m + 1, Len(ids)))

RECURSIVE get_config(_, _)
RECURSIVE get_config_each(_, _)
get_config_each(heap, ordered) ==
    IF ordered = <<>> THEN <<>>
    ELSE <<heap[Head(ordered)].text>>
         \o get_config(heap, heap[Head(ordered)].subs)
         \o get_config_each(heap, Tail(ordered))

get_config(heap, ids) == get_config_each(heap, sorted(heap, ids))

(***************************************************************************)
(* sort_config as a function of the list of lines.                         *)
(***************************************************************************)
EmptyState == [nodes |-> <<>>, lines |-> <<>>, currlevel |-> <<>>, placed |-> <<>>]

RECURSIVE Build(_)
Build(cfg) ==
    IF cfg = <<>> THEN EmptyState
    ELSE LET before == Build(SubSeq(cfg, 1, Len(cfg) - 1))
         IN  LoopBody(before, cfg[Len(cfg)])

sort_config(cfg) ==
    LET st == Build(cfg) IN get_config(st.nodes, DictValues(st.lines))

(***************************************************************************)
(* module_main.  A file is a record: whether it exists and the characters  *)
(* it holds.                                                               *)
(***************************************************************************)
NoFile == [exists |-> FALSE, data |-> <<>>]

File(data) == [exists |-> TRUE, data |-> data]

\* fh.readlines(): the lines of the file, each with its line terminator, the
\* last one without when the file does not end with one.
RECURSIVE readlines(_)
readlines(data) ==
    IF data = <<>> THEN <<>>
    ELSE LET ends == {k \in 1..Len(data) : data[k] = Newline}
             n    == IF ends = {} THEN Len(data)
                     ELSE CHOOSE k \in ends : \A j \in ends : k <= j
         IN  <<SubSeq(data, 1, n)>> \o readlines(SubSeq(data, n + 1, Len(data)))

\* ''.join(list)
RECURSIVE join(_)
join(list) == IF list = <<>> THEN <<>> ELSE Head(list) \o join(Tail(list))

\* The branch module_main takes: the if / elif / else on the two joined
\* texts and on module.check_mode.
Branch_NoCheckMode(after, before, check) ==
    IF after = before THEN "unchanged" ELSE "write"

Branch_RewritesAlways(after, before, check) ==
    IF check THEN (IF after = before THEN "unchanged" ELSE "check") ELSE "write"

Branch(after, before, check) ==
    IF after = before THEN "unchanged"
    ELSE IF check THEN "check"
    ELSE "write"

NoResult == [changed |-> FALSE, diff |-> <<>>]

\* The lines of the destination as module_main takes them: those of the file
\* when os.path.isfile(destfile), else the empty list.
old_config_MissingIsBlankLine(dest) ==
    IF dest.exists THEN readlines(dest.data) ELSE <<<<Newline>>>>

old_config(dest) == IF dest.exists THEN readlines(dest.data) ELSE <<>>

\* open(destfile, 'w') and fh.writelines(sorted_config): the file holds the
\* lines one after the other, nothing added between them.
writelines_DropsLastLine(list) ==
    [exists |-> TRUE, data |-> join(SubSeq(list, 1, Len(list) - 1))]

writelines(list) == File(join(list))

\* module_main on a source file, a destination file and module.check_mode:
\* the destination file after the call, whether it was opened for writing,
\* and the result given to exit_json.
module_main(src, dest, check) ==
    LET sorted_config     == sort_config(readlines(src))
        old_sorted_config == old_config(dest)
        diff   == [before |-> join(old_sorted_config), after |-> join(sorted_config)]
        branch == Branch(join(sorted_config), join(old_sorted_config), check)
    IN  IF branch = "unchanged"
        THEN [dest |-> dest, wrote |-> FALSE, branch |-> branch,
              result |-> [changed |-> FALSE, diff |-> <<>>]]
        ELSE IF branch = "check"
        THEN [dest |-> dest, wrote |-> FALSE, branch |-> branch,
              result |-> [changed |-> TRUE, diff |-> <<diff>>]]
        ELSE [dest |-> writelines(sorted_config), wrote |-> TRUE, branch |-> branch,
              result |-> [changed |-> TRUE, diff |-> <<diff>>]]

(***************************************************************************)
(* The state.                                                              *)
(*   config, nodes, lines, currlevel, out: one call of sort_config, line   *)
(*     by line; placed logs what was done with each line; pc is the place  *)
(*     of the call.                                                        *)
(*   permuted, out2, mixed: a second input, made from config by exchanging *)
(*     sibling blocks, its output, and whether an exchange was between     *)
(*     blocks of different indentation.                                    *)
(***************************************************************************)
VARIABLES config, nodes, lines, currlevel, placed, pc, out,
          permuted, out2, mixed,
          srcfile, destfile, check_mode, result, wrote, before_run,
          applied, writes

vars == <<config, nodes, lines, currlevel, placed, pc, out, permuted, out2, mixed,
          srcfile, destfile, check_mode, result, wrote, before_run,
          applied, writes>>

callvars == <<nodes, lines, currlevel, placed>>
reordervars == <<permuted, out2, mixed>>
mainvars == <<srcfile, destfile, check_mode, result, wrote, before_run,
              applied, writes>>

\* The values of the variables that a specification does not use.
NoCall == nodes = <<>> /\ lines = <<>> /\ currlevel = <<>> /\ placed = <<>>
NoReorder == permuted = <<>> /\ out2 = <<>> /\ mixed = FALSE
NoMain ==
    /\ srcfile = <<>>
    /\ destfile = NoFile
    /\ check_mode = FALSE
    /\ result = NoResult
    /\ wrote = FALSE
    /\ before_run = NoFile
    /\ applied = 0
    /\ writes = 0

Init ==
    /\ config = <<>>
    /\ nodes = <<>>
    /\ lines = <<>>
    /\ currlevel = <<>>
    /\ placed = <<>>
    /\ pc = "loop"
    /\ out = <<>>
    /\ NoReorder
    /\ NoMain

Iterate(line) ==
    LET st == LoopBody([nodes |-> nodes, lines |-> lines,
                        currlevel |-> currlevel, placed |-> placed], line)
    IN  /\ pc = "loop"
        /\ Len(config) < MaxLines
        /\ config' = Append(config, line)
        /\ nodes' = st.nodes
        /\ lines' = st.lines
        /\ currlevel' = st.currlevel
        /\ placed' = st.placed
        /\ UNCHANGED <<pc, out>>
        /\ UNCHANGED <<reordervars, mainvars>>

SkipBlank == \E line \in Lines : IsBlank(line) /\ Iterate(line)

SubLine == \E line \in Lines :
    ~IsBlank(line) /\ StartsWithSpace(line) /\ Iterate(line)

TopLine == \E line \in Lines :
    ~IsBlank(line) /\ ~StartsWithSpace(line) /\ Iterate(line)

Return ==
    /\ pc = "loop"
    /\ pc' = "done"
    /\ out' = get_config(nodes, DictValues(lines))
    /\ UNCHANGED <<config, nodes, lines, currlevel, placed>>
    /\ UNCHANGED <<reordervars, mainvars>>

Next == SkipBlank \/ SubLine \/ TopLine \/ Return

Spec == Init /\ [][Next]_vars

(***************************************************************************)
(* Two inputs that differ by the order of sibling blocks, both sorted.     *)
(* A block is a non-blank line with the lines that follow it as long as    *)
(* they are blank or more indented than it.  Two lines are siblings when   *)
(* sort_config keeps both and adds them to the same object, or both are    *)
(* top-level lines.                                                        *)
(***************************************************************************)
RECURSIVE SeqsUpTo(_, _)
SeqsUpTo(S, n) ==
    IF n = 0 THEN {<<>>}
    ELSE LET shorter == SeqsUpTo(S, n - 1)
         IN  shorter \cup {Append(q, x) : q \in {r \in shorter : Len(r) = n - 1}, x \in S}

Inputs == SeqsUpTo(Lines, MaxLines)

BlockEnd(cfg, i) ==
    CHOOSE e \in i..Len(cfg) :
        /\ \A m \in (i + 1)..e :
              IsBlank(cfg[m]) \/ LeadingSpaces(cfg[m]) > LeadingSpaces(cfg[i])
        /\ e < Len(cfg) =>
              ~(IsBlank(cfg[e + 1]) \/ LeadingSpaces(cfg[e + 1]) > LeadingSpaces(cfg[i]))

\* log is Build(cfg).placed.
AreSiblings(log, i, j) ==
    log[i].node # 0 /\ log[j].node # 0 /\ log[i].parent = log[j].parent

ExchangeBlocks(cfg, i, j) ==
    LET e1 == BlockEnd(cfg, i)
        e2 == BlockEnd(cfg, j)
    IN  SubSeq(cfg, 1, i - 1) \o SubSeq(cfg, j, e2) \o SubSeq(cfg, e1 + 1, j - 1)
        \o SubSeq(cfg, i, e1) \o SubSeq(cfg, e2 + 1, Len(cfg))

InitReorder ==
    /\ config \in Inputs
    /\ permuted = config
    /\ mixed = FALSE
    /\ pc = "reorder"
    /\ out = <<>>
    /\ out2 = <<>>
    /\ NoCall
    /\ NoMain

ExchangeSiblings ==
    /\ pc = "reorder"
    /\ Len(permuted) >= 2
    /\ LET log == Build(permuted).placed IN
       \E i, j \in 1..Len(permuted) :
          /\ i < j
          /\ AreSiblings(log, i, j)
          /\ BlockEnd(permuted, i) < j
          /\ permuted' = ExchangeBlocks(permuted, i, j)
          /\ mixed' = (mixed \/ LeadingSpaces(permuted[i]) # LeadingSpaces(permuted[j]))
    /\ UNCHANGED <<config, pc, out, out2>>
    /\ UNCHANGED <<callvars, mainvars>>

SortBoth ==
    /\ pc = "reorder"
    /\ pc' = "sorted"
    /\ out' = sort_config(config)
    /\ out2' = sort_config(permuted)
    /\ UNCHANGED <<config, permuted, mixed>>
    /\ UNCHANGED <<callvars, mainvars>>

NextReorder == ExchangeSiblings \/ SortBoth

SpecReorder == InitReorder /\ [][NextReorder]_vars

(***************************************************************************)
(* Runs of module_main on one source file and one destination, in check    *)
(* mode or not.  before_run is the destination as the last run found it,   *)
(* applied counts the runs made outside check mode and writes the runs     *)
(* that opened the destination for writing.  The source is not edited      *)
(* between the runs.                                                       *)
(***************************************************************************)
MaxApplied == 2

FileChars == {Newline, 97}

FileContents == SeqsUpTo(FileChars, MaxFile)

InitMain ==
    /\ srcfile \in FileContents
    /\ destfile \in {NoFile} \cup {File(d) : d \in FileContents}
    /\ check_mode = FALSE
    /\ result = NoResult
    /\ wrote = FALSE
    /\ before_run = destfile
    /\ applied = 0
    /\ writes = 0
    /\ pc = "ready"
    /\ config = <<>>
    /\ out = <<>>
    /\ NoCall
    /\ NoReorder

Run(check, branch) ==
    LET r == module_main(srcfile, destfile, check)
    IN  /\ r.branch = branch
        /\ ~check => applied < MaxApplied
        /\ check_mode' = check
        /\ applied' = IF check THEN applied ELSE applied + 1
        /\ writes' = IF r.wrote THEN writes + 1 ELSE writes
        /\ before_run' = destfile
        /\ destfile' = r.dest
        /\ wrote' = r.wrote
        /\ result' = r.result
        /\ pc' = "exited"
        /\ UNCHANGED <<srcfile, config, out>>
        /\ UNCHANGED <<callvars, reordervars>>

RunUnchanged == \E check \in BOOLEAN : Run(check, "unchanged")

RunCheckMode == \E check \in BOOLEAN : Run(check, "check")

RunWrite == \E check \in BOOLEAN : Run(check, "write")

NextMain == RunUnchanged \/ RunCheckMode \/ RunWrite

SpecMain == InitMain /\ [][NextMain]_vars

(***************************************************************************)
(* What the properties below are stated with.  These definitions read the  *)
(* input and the output as text and do not go through the operations.      *)
(***************************************************************************)
Range(s) == {s[k] : k \in 1..Len(s)}

Largest(S) == CHOOSE x \in S : \A y \in S : y <= x

Smallest(S) == CHOOSE x \in S : \A y \in S : x <= y

Count(s, x) == Cardinality({k \in 1..Len(s) : s[k] = x})

\* A line that is empty or holds only white space.
WhitespaceOnly(line) == \A k \in 1..Len(line) : line[k] \in {9, 10, 11, 12, 13, 32}

\* A top-level line: not blank and not starting with a space.
IsTop(line) == ~WhitespaceOnly(line) /\ line[1] # 32

\* A sub-line: not blank and starting with a space.
IsSub(line) == ~WhitespaceOnly(line) /\ line[1] = 32

NoBlanks(cfg) == SelectSeq(cfg, LAMBDA l : ~WhitespaceOnly(l))

\* The nearest non-blank line before line i that is strictly less indented
\* than line i (0 when there is none).
NearestShallower(cfg, i) ==
    LET cand == {j \in 1..(i - 1) :
                    /\ ~WhitespaceOnly(cfg[j])
                    /\ LeadingSpaces(cfg[j]) < LeadingSpaces(cfg[i])}
    IN  IF cand = {} THEN 0 ELSE Largest(cand)

\* The nearest shallower line of every line of cfg.
ShallowerOf(cfg) == [i \in 1..Len(cfg) |-> NearestShallower(cfg, i)]

\* The texts of the non-blank lines of cfg whose nearest shallower line is
\* one of the lines occ (ns is ShallowerOf(cfg)).
ChildTextsOf(cfg, ns, occ) ==
    {cfg[i] : i \in {k \in 1..Len(cfg) : ~WhitespaceOnly(cfg[k]) /\ ns[k] \in occ}}

SubTexts(n) == {nodes[c].text : c \in Range(nodes[n].subs)}

\* The paths of the forest: the sequences of objects from a top-level object
\* down to an object.
RECURSIVE PathsUnder(_, _)
PathsUnder(prefix, ids) ==
    UNION {{Append(prefix, ids[k])}
           \cup PathsUnder(Append(prefix, ids[k]), nodes[ids[k]].subs) : k \in 1..Len(ids)}

AllPaths == PathsUnder(<<>>, DictValues(lines))

\* p before q: at the first place where the texts along them differ the text
\* of p is the smaller, or p is a proper prefix of q.
PathBefore(p, q) ==
    \/ /\ Len(p) < Len(q)
       /\ \A k \in 1..Len(p) : nodes[p[k]].text = nodes[q[k]].text
    \/ \E k \in 1..Len(p) :
          /\ k <= Len(q)
          /\ \A j \in 1..(k - 1) : nodes[p[j]].text = nodes[q[j]].text
          /\ TextLess(nodes[p[k]].text, nodes[q[k]].text)

\* The place in the output that the canonical order gives to the object at
\* the end of each path.
Ranks == LET paths == AllPaths
         IN  [p \in paths |-> 1 + Cardinality({q \in paths : PathBefore(q, p)})]

\* In the output, the children of the object at the end of path p carry
\* exactly the texts U, in ascending order, the first right after the line
\* of the object, all before the line of any later object outside it.
ChildrenEmitted(rank, p, U) ==
    LET n    == p[Len(p)]
        pos  == {rank[Append(p, c)] : c \in Range(nodes[n].subs)}
        size == Cardinality({q \in DOMAIN rank :
                    Len(q) >= Len(p) /\ SubSeq(q, 1, Len(p)) = p})
    IN  /\ rank[p] <= Len(out) /\ out[rank[p]] = nodes[n].text
        /\ Cardinality(pos) = Cardinality(U)
        /\ \A q \in pos : q > rank[p] /\ q < rank[p] + size /\ q <= Len(out)
        /\ {out[q] : q \in pos} = U
        /\ \A q1, q2 \in pos : q1 < q2 => TextLess(out[q1], out[q2])
        /\ U # {} => rank[p] + 1 \in pos

(***************************************************************************)
(* C1.  Order-insensitivity: when the second input was made by exchanging  *)
(* sibling blocks whose first lines are equally indented, the two outputs  *)
(* are equal line for line.                                                *)
(***************************************************************************)
C1_OrderInsensitive ==
    (pc = "sorted" /\ ~mixed) => out2 = out

\* C1 as stated: whatever sibling blocks were exchanged, the two outputs are
\* equal line for line.
C1_AnySiblingOrder ==
    pc = "sorted" => out2 = out

\* Sibling blocks of equal indentation were exchanged, under a top-level line
\* and at the top level, and the input is not in sorted order.
C1_Witness ==
    /\ pc = "sorted" /\ ~mixed
    /\ permuted # config
    /\ out # NoBlanks(config)
    /\ out # NoBlanks(permuted)
    /\ \E i \in 1..Len(config) : IsSub(config[i]) /\ config[i] \in Range(out)

(***************************************************************************)
(* C2.  Idempotence: sorting the output of sort_config again gives the     *)
(* same output, for every input.                                           *)
(***************************************************************************)
C2_Idempotent == pc = "done" => sort_config(out) = out

(***************************************************************************)
(* C3.  Top-level merge: for a top-level text of the input, the output     *)
(* holds that line exactly once; the registry holds one object for it,     *)
(* the one created at its first occurrence; the children of that object    *)
(* are, without duplicates, the union of the children of every occurrence, *)
(* and they are the children emitted in the block under the line.          *)
(***************************************************************************)
C3_TopLevelMerge ==
    pc = "done" =>
        LET rank == Ranks
            ns   == ShallowerOf(config)
        IN
        \A j \in 1..Len(config) : IsTop(config[j]) =>
            LET t   == config[j]
                occ == {k \in 1..Len(config) : config[k] = t}
                U   == ChildTextsOf(config, ns, occ)
                n   == placed[Smallest(occ)].node
            IN  /\ Count(out, t) = 1
                /\ {lines[k].val : k \in {i \in 1..Len(lines) : lines[i].key = t}} = {n}
                /\ Count(DictValues(lines), n) = 1
                /\ nodes[n].text = t
                /\ SubTexts(n) = U
                /\ Len(nodes[n].subs) = Cardinality(U)
                /\ ChildrenEmitted(rank, <<n>>, U)

\* A top-level line is reopened, and both occurrences bring a child of their own.
C3_Witness ==
    /\ pc = "done"
    /\ \E i, j \in 1..Len(config) :
          LET ns == ShallowerOf(config)
              ci == ChildTextsOf(config, ns, {i})
              cj == ChildTextsOf(config, ns, {j})
          IN  /\ i < j /\ IsTop(config[i]) /\ config[i] = config[j]
              /\ ci \ cj # {}
              /\ cj \ ci # {}

(***************************************************************************)
(* C4.  Nested merge: sub-lines of the same text attached to the same      *)
(* parent are one object, the object on top of the stack after each of     *)
(* them; its children are, without duplicates, the union of the lines      *)
(* nested under all its occurrences, and the output has the line once      *)
(* under the parent, followed by these children in ascending order.        *)
(***************************************************************************)
Occurrences(n) == {k \in 1..Len(placed) : placed[k].node = n}

C5_ParentAttachment ==
    \A i \in 1..Len(config) : placed[i].parent # 0 =>
        LET j == NearestShallower(config, i)
        IN  /\ j # 0
            /\ placed[i].parent = placed[j].node
            /\ placed[i].node \in Range(nodes[placed[i].parent].subs)
            /\ nodes[placed[i].node].text = config[i]
            /\ LeadingSpaces(nodes[placed[i].parent].text) < LeadingSpaces(config[i])

\* A sub-line is attached past a preceding line of equal or greater indent.
C5_Witness ==
    \E i \in 2..Len(config) :
        /\ placed[i].parent # 0
        /\ placed[i - 1].parent # 0
        /\ LeadingSpaces(config[i - 1]) >= LeadingSpaces(config[i])
        /\ \E k \in 2..Len(config) :
              placed[k].parent # 0 /\ placed[k].parent = placed[k - 1].node

(***************************************************************************)
(* C6.  Sibling uniqueness: after every line, no child list holds two      *)
(* objects of the same text and no two objects of the registry have the    *)
(* same text; and when a sub-line is added to a parent that already has a  *)
(* child of its text, the heap is unchanged and that child is the object   *)
(* returned and pushed.                                                    *)
(***************************************************************************)
UniqueTexts(ids) ==
    \A a, b \in 1..Len(ids) : nodes[ids[a]].text = nodes[ids[b]].text => a = b

SiblingsUnique ==
    /\ \A n \in 1..Len(nodes) : UniqueTexts(nodes[n].subs)
    /\ UniqueTexts(DictValues(lines))

C6_SiblingUniqueness ==
    [][/\ SiblingsUnique'
       /\ (Len(placed') = Len(placed) + 1 /\ placed'[Len(placed')].parent # 0) =>
            LET p    == placed'[Len(placed')].parent
                line == config'[Len(config')]
                old  == {c \in Range(nodes[p].subs) : nodes[c].text = line}
            IN  old # {} =>
                  /\ nodes' = nodes
                  /\ old = {placed'[Len(placed')].node}
                  /\ currlevel'[Len(currlevel')] \in old]_vars

\* A sub-line was added to a parent that already had a child of its text,
\* a child that has children of its own.
C6_Witness ==
    \E i, j \in 1..Len(config) :
        /\ i < j /\ placed[i].parent # 0 /\ placed[i].node = placed[j].node
        /\ nodes[placed[i].node].subs # <<>>
        /\ j = Len(config)

(***************************************************************************)
(* C7.  Canonical order: the output lists the objects of the forest in the *)
(* order of their paths, a path before its extensions and siblings in      *)
(* ascending order of text; each place of the output carries the text of   *)
(* the object of that rank, and the output of an empty forest is empty.    *)
(***************************************************************************)
C7_CanonicalOrder ==
    pc = "done" =>
        LET rank == Ranks
        IN  /\ Len(out) = Cardinality(DOMAIN rank)
            /\ \A p \in DOMAIN rank :
                  /\ rank[p] \in 1..Len(out)
                  /\ out[rank[p]] = nodes[p[Len(p)]].text
            /\ \A p, q \in DOMAIN rank : rank[p] = rank[q] => p = q

\* Two top-level lines and two children of one of them arrived in descending
\* order.
C7_Witness ==
    /\ pc = "done"
    /\ Len(lines) >= 2
    /\ TextLess(lines[2].key, lines[1].key)
    /\ \E n \in 1..Len(nodes) :
          /\ Len(nodes[n].subs) >= 2
          /\ TextLess(nodes[nodes[n].subs[2]].text, nodes[nodes[n].subs[1]].text)

(***************************************************************************)
(* C8.  Blank-line elision: the heap, the registry and the stack are what  *)
(* they are for the input without its blank lines, so a blank line changes *)
(* none of them; no blank line is in the output, and the output is the     *)
(* output for the input without its blank lines.                           *)
(***************************************************************************)
C8_BlankElision ==
    LET b == Build(NoBlanks(config))
    IN  /\ nodes = b.nodes
        /\ lines = b.lines
        /\ currlevel = b.currlevel
        /\ pc = "done" =>
              /\ \A k \in 1..Len(out) : ~WhitespaceOnly(out[k])
              /\ out = sort_config(NoBlanks(config))

\* A line of white space stands between a parent and the child attached to it.
C8_Witness ==
    /\ pc = "done"
    /\ \E i \in 2..(Len(config) - 1) :
          /\ WhitespaceOnly(config[i]) /\ config[i] # <<>>
          /\ placed[i + 1].parent # 0
          /\ placed[i + 1].parent = placed[i - 1].node
          /\ config[i + 1] \in Range(out)

(***************************************************************************)
(* C9.  Reconcile change rule: a run reports changed exactly when the      *)
(* joined output of sort_config on the source differs from the content the *)
(* destination had (nothing when it did not exist); when they are equal    *)
(* the destination is not written, in check mode and outside it.           *)
(***************************************************************************)
AfterText == join(sort_config(readlines(srcfile)))

BeforeText == IF before_run.exists THEN before_run.data ELSE <<>>

C9_ChangeRule ==
    pc = "exited" =>
        /\ result.changed = (AfterText # BeforeText)
        /\ AfterText = BeforeText => (~wrote /\ destfile = before_run)

\* A run outside check mode found the destination equal to the sorted source,
\* which is not the source as it stands.
C9_Witness ==
    /\ pc = "exited" /\ ~check_mode
    /\ before_run.exists /\ AfterText = BeforeText
    /\ AfterText # srcfile
    /\ ~result.changed

(***************************************************************************)
(* C10.  Dry-run frame: a run in check mode leaves the destination as it   *)
(* was, existing or not, and reports the changed flag that a run outside   *)
(* check mode reports on the same source and destination; a run outside    *)
(* check mode that reports changed leaves the destination holding exactly  *)
(* the joined sorted output.                                               *)
(***************************************************************************)
C10_DryRunFrame ==
    pc = "exited" =>
        /\ check_mode => (~wrote /\ destfile = before_run)
        /\ result.changed = module_main(srcfile, before_run, ~check_mode).result.changed
        /\ (~check_mode /\ result.changed) => destfile = File(AfterText)

\* A run in check mode reported a change against a destination that does not
\* exist, and left it so.
C10_Witness ==
    /\ pc = "exited" /\ check_mode
    /\ result.changed
    /\ ~before_run.exists /\ ~destfile.exists
    /\ AfterText # srcfile

(***************************************************************************)
(* C11.  Missing destination: a run that finds no destination file ends    *)
(* with a result; it reports changed exactly when the sorted output is not *)
(* empty, and then the diff it reports has nothing before and the whole    *)
(* joined sorted output after, which is what the destination holds after a *)
(* run outside check mode; when the sorted output is empty it reports      *)
(* unchanged and the destination still does not exist.                     *)
(***************************************************************************)
SortedLines == sort_config(readlines(srcfile))

C11_MissingDestination ==
    (pc = "exited" /\ ~before_run.exists) =>
        /\ result.changed = (SortedLines # <<>>)
        /\ SortedLines # <<>> =>
              /\ result.diff = <<[before |-> <<>>, after |-> AfterText]>>
              /\ AfterText # <<>>
              /\ ~check_mode => (wrote /\ destfile = File(AfterText))
              /\ check_mode => (~wrote /\ ~destfile.exists)
        /\ SortedLines = <<>> =>
              (~result.changed /\ ~wrote /\ ~destfile.exists)

\* A run outside check mode found no destination and created it with the
\* sorted output of a source of two lines.
C11_Witness ==
    /\ pc = "exited" /\ ~check_mode
    /\ ~before_run.exists /\ destfile.exists
    /\ Len(SortedLines) >= 2
    /\ result.changed

(***************************************************************************)
(* C12.  Orphan drop: a sub-line that no top-level line precedes is        *)
(* dropped: nothing is done with it, the stack is empty after it, and the  *)
(* heap, the registry, the stack and the output are those of the input     *)
(* without the orphans, so every later line is treated as if they were     *)
(* absent; a text is in the output only if a line that is not an orphan    *)
(* carries it, and no object holds an orphan under a later top-level line. *)
(***************************************************************************)
IsOrphan(cfg, i) ==
    IsSub(cfg[i]) /\ \A j \in 1..(i - 1) : ~IsTop(cfg[j])

RECURSIVE WithoutOrphans(_)
WithoutOrphans(cfg) ==
    IF cfg = <<>> THEN <<>>
    ELSE LET rest == WithoutOrphans(SubSeq(cfg, 1, Len(cfg) - 1))
         IN  IF IsOrphan(cfg, Len(cfg)) THEN rest ELSE Append(rest, cfg[Len(cfg)])

C12_OrphanDrop ==
    /\ \A i \in 1..Len(config) : IsOrphan(config, i) => placed[i] = [node |-> 0, parent |-> 0]
    /\ (Len(config) > 0 /\ IsOrphan(config, Len(config))) =>
          (currlevel = <<>> /\ nodes = <<>> /\ lines = <<>>)
    /\ (\E i \in 1..Len(config) : IsOrphan(config, i)) =>
          LET b == Build(WithoutOrphans(config))
          IN  /\ nodes = b.nodes
              /\ lines = b.lines
              /\ currlevel = b.currlevel
              /\ Len(nodes) = Cardinality({k \in 1..Len(config) : placed[k].node # 0})
                   - Cardinality({k \in 1..Len(config) : \E j \in 1..(k - 1) :
                                    placed[j].node # 0 /\ placed[j].node = placed[k].node})
              /\ pc = "done" =>
                    /\ out = sort_config(WithoutOrphans(config))
                    /\ \A k \in 1..Len(out) :
                          \E i \in 1..Len(config) : config[i] = out[k] /\ ~IsOrphan(config, i)

\* An orphan is followed by a more indented line and then by a top-level
\* line with a sub-line; only the last two are in the output.
C12_Witness ==
    /\ pc = "done"
    /\ Len(config) = 4
    /\ IsOrphan(config, 1) /\ IsOrphan(config, 2)
    /\ LeadingSpaces(config[2]) > LeadingSpaces(config[1])
    /\ IsTop(config[3]) /\ IsSub(config[4])
    /\ out = <<config[3], config[4]>>
    /\ config[2] # config[4] /\ config[1] # config[4]

(***************************************************************************)
(* C13.  No line loss after the first top-level line: once a top-level     *)
(* line has been processed the stack is never empty, its bottom entry is   *)
(* a registered top-level node of indent 0 and the indents grow strictly   *)
(* from bottom to top; every non-blank sub-line after the first top-level  *)
(* line is attached under a parent and its text is in the output, and a    *)
(* non-blank line is left out only before the first top-level line.        *)
(***************************************************************************)
FirstTop(cfg) ==
    IF \E i \in 1..Len(cfg) : IsTop(cfg[i])
    THEN Smallest({i \in 1..Len(cfg) : IsTop(cfg[i])})
    ELSE 0

C13_NoLossAfterTop ==
    LET first == FirstTop(config)
    IN  /\ first # 0 =>
              /\ currlevel # <<>>
              /\ nodes[currlevel[1]].indent = 0
              /\ ~WhitespaceOnly(nodes[currlevel[1]].text)
              /\ nodes[currlevel[1]].text[1] # Space
              /\ \E k \in 1..Len(lines) : lines[k].val = currlevel[1]
              /\ \A k \in 1..(Len(currlevel) - 1) :
                    nodes[currlevel[k]].indent < nodes[currlevel[k + 1]].indent
        /\ \A i \in 1..Len(config) :
              /\ (first # 0 /\ i > first /\ IsSub(config[i])) =>
                    /\ placed[i].node # 0
                    /\ placed[i].parent # 0
                    /\ nodes[placed[i].node].text = config[i]
                    /\ \E k \in 1..Len(nodes[placed[i].parent].subs) :
                          nodes[placed[i].parent].subs[k] = placed[i].node
                    /\ pc = "done" => \E k \in 1..Len(out) : out[k] = config[i]
              /\ (~WhitespaceOnly(config[i]) /\ placed[i].node = 0) =>
                    (first = 0 \/ i < first)

\* A top-level line is followed by a sub-line two deep, a shallower
\* sub-line that pops it, and a deeper one again: all four are in the output.
C13_Witness ==
    /\ pc = "done"
    /\ Len(config) = 4
    /\ IsTop(config[1])
    /\ LeadingSpaces(config[2]) = 2
    /\ LeadingSpaces(config[3]) = 1
    /\ LeadingSpaces(config[4]) = 2
    /\ ~WhitespaceOnly(config[2]) /\ ~WhitespaceOnly(config[3]) /\ ~WhitespaceOnly(config[4])
    /\ placed[4].parent = placed[3].node
    /\ Len(out) = 4

(***************************************************************************)
(* C14.  Reconcile convergence: once a run outside check mode has been     *)
(* made, the destination reads as the sorted output of the source (a       *)
(* destination that does not exist reads as the empty text), and every     *)
(* run that follows, in check mode or not, reports changed = false, does   *)
(* not write and leaves the destination as it found it; the destination    *)
(* is opened for writing at most once in a sequence of runs.               *)
(***************************************************************************)
DestText == IF destfile.exists THEN destfile.data ELSE <<>>

\* The last run was made after a run outside check mode.
FollowsApplied ==
    /\ pc = "exited"
    /\ \/ applied >= 2
       \/ applied = 1 /\ check_mode

C14_Convergence ==
    /\ applied >= 1 => DestText = AfterText
    /\ FollowsApplied =>
          /\ ~result.changed
          /\ result.diff = <<>>
          /\ ~wrote
          /\ destfile = before_run
    /\ writes <= 1

\* A destination that differed was rewritten once by a run outside check
\* mode; a second run outside check mode found it equal to the sorted
\* output of a source of two lines and changed nothing.
C14_Witness ==
    /\ FollowsApplied
    /\ applied = 2
    /\ ~check_mode
    /\ writes = 1
    /\ Len(SortedLines) >= 2
    /\ ~result.changed
    /\ destfile = File(AfterText)

=============================================================================
